---- MODULE Spec2Model ----
\* Model of dexcom_share_to_quest3.py: the `run` command (one-time setup,
\* endpoint resolution with OSCQuery discovery, and the poll loop).
\*
\* Text is modelled as a sequence of code points, so that str.strip(),
\* str.lower(), str.startswith(), substring search and sorted() are computed
\* the way Python computes them.  An absent value (None) is the empty tuple
\* and a present value v is the one-element tuple <<v>>.
EXTENDS Integers, Sequences, FiniteSets, TLC

\* ---------------------------------------------------------------- bounds
\* Number of poll cycles whose outcome is recorded in `log`.
MaxCycles == 4
\* Number of browse-worker notifications delivered in one discovery call.
MaxNotify == 2

\* ------------------------------------------------------- text constants
S_auto == <<97, 117, 116, 111>>                            \* "auto"
S_AUTO == <<65, 85, 84, 79>>                               \* "AUTO"
S_OscQuery == <<79, 83, 67, 81, 117, 101, 114, 121>>       \* "OSCQuery"
S_oscquery == <<111, 115, 99, 113, 117, 101, 114, 121>>    \* "oscquery"
S_vrchat == <<118, 114, 99, 104, 97, 116>>                 \* "vrchat"
S_127 == <<49, 50, 55, 46>>                                \* "127."
S_empty == <<>>                                            \* ""
S_blank == <<32>>                                          \* " "
S_AutoSp == <<32, 65, 117, 116, 111, 32>>                  \* " Auto "
S_lan == <<49, 48, 46, 48, 46, 48, 46, 53>>                \* "10.0.0.5"
S_lanSp == <<32, 49, 48, 46, 48, 46, 48, 46, 53, 32>>      \* " 10.0.0.5 "
S_svc == <<49, 57, 50, 46, 49, 54, 56, 46, 49, 46, 55>>    \* "192.168.1.7"
S_loop == <<49, 50, 55, 46, 48, 46, 48, 46, 49>>           \* "127.0.0.1"
S_loopSp == <<32, 49, 50, 55, 46, 48, 46, 48, 46, 49, 32>> \* " 127.0.0.1 "
S_v6 == <<102, 101, 56, 48, 58, 58, 49>>                   \* "fe80::1"
S_9001 == <<57, 48, 48, 49>>                               \* "9001"
S_bad == <<98, 97, 100>>                                   \* "bad"
N_vrc1 == <<86, 82, 67, 104, 97, 116, 45, 67, 108, 105, 101, 110, 116, 45, 49>>  \* "VRChat-Client-1"
N_vrc2 == <<118, 114, 99, 104, 97, 116, 45, 50>>           \* "vrchat-2"
N_obs == <<79, 66, 83>>                                    \* "OBS"
H_quest == <<81, 117, 101, 115, 116, 45, 72, 77, 68>>      \* "Quest-HMD"
H_vrc == <<86, 82, 67, 104, 97, 116, 45, 80, 67>>          \* "VRChat-PC"
S_None == <<78, 111, 110, 101>>                            \* "None"
S_1e999 == <<49, 101, 57, 57, 57>>                         \* "1e999"

R_us == <<117, 115>>                                       \* "us"
R_ous == <<111, 117, 115>>                                 \* "ous"
R_jp == <<106, 112>>                                       \* "jp"
R_EU == <<32, 69, 85, 32>>                                 \* " EU "
R_xx == <<120, 120>>                                       \* "xx"
U_bob == <<98, 111, 98>>                                   \* "bob"
U_quote == <<32, 97, 34, 233, 92, 32>>                     \* " a\"e'\\ " (e' is U+00E9)
W_s3 == <<32, 115, 51, 32>>                                \* " s3 "
W_pe == <<112, 233>>                                       \* "pe'"
P_one == <<109, 49>>                                       \* "m1"
P_two == <<32, 109, 50, 233>>                              \* " m2e'"
\* Names normalize_region accepts (lines 115-119).
RegionsUs == {<<117, 115>>,
              <<117, 115, 97>>,
              <<117, 110, 105, 116, 101, 100, 115, 116, 97, 116, 101, 115>>,
              <<117, 110, 105, 116, 101, 100, 95, 115, 116, 97, 116, 101, 115>>}
RegionsOus == {<<111, 117, 115>>,
               <<111, 117, 116, 115, 105, 100, 101>>,
               <<111, 117, 116, 115, 105, 100, 101, 45, 117, 115>>,
               <<111, 117, 116, 115, 105, 100, 101, 95, 111, 102, 95, 117, 115>>,
               <<111, 117, 116, 115, 105, 100, 101, 111, 102, 117, 115>>,
               <<101, 117>>,
               <<101, 117, 114, 111, 112, 101>>,
               <<117, 107>>}
RegionsJp == {<<106, 112>>,
              <<106, 97, 112, 97, 110>>}

\* ------------------------------------------------------------ str helpers
None == <<>>
Some(v) == <<v>>
\* Result of a call that may raise: the value returned, or the exception type.
Ok(v) == [ok |-> TRUE, v |-> v]
Raise(e) == [ok |-> FALSE, err |-> e]

\* str.lower() on one code point (ASCII letters).
LowerChar(c) == IF c >= 65 /\ c <= 90 THEN c + 32 ELSE c
Lower(s) == [i \in 1..Len(s) |-> LowerChar(s[i])]

\* Characters str.strip() removes.
IsSpace(c) == c \in {9, 10, 11, 12, 13, 32}

RECURSIVE LStrip(_)
LStrip(s) == IF s # <<>> /\ IsSpace(Head(s)) THEN LStrip(Tail(s)) ELSE s

RECURSIVE RStrip(_)
RStrip(s) ==
    IF s # <<>> /\ IsSpace(s[Len(s)]) THEN RStrip(SubSeq(s, 1, Len(s) - 1)) ELSE s

Strip(s) == RStrip(LStrip(s))

StartsWith(s, p) == Len(s) >= Len(p) /\ SubSeq(s, 1, Len(p)) = p

\* `sub in s`
Contains(s, sub) ==
    \E i \in 0..(Len(s) - Len(sub)) : SubSeq(s, i + 1, i + Len(sub)) = sub

\* Python's ordering of str: lexicographic by code point.
RECURSIVE StrLess(_, _)
StrLess(a, b) ==
    IF b = <<>> THEN FALSE
    ELSE IF a = <<>> THEN TRUE
    ELSE IF Head(a) # Head(b) THEN Head(a) < Head(b)
    ELSE StrLess(Tail(a), Tail(b))

\* sorted(set_of_str)
RECURSIVE Sorted(_)
Sorted(S) ==
    IF S = {} THEN <<>>
    ELSE LET m == CHOOSE x \in S : \A y \in S \ {x} : StrLess(x, y)
         IN  <<m>> \o Sorted(S \ {m})

Abs(n) == IF n < 0 THEN -n ELSE n

\* ------------------------------------------------------------ input sets
\* --quest-ip values tried (argparse default is "auto").
RequestedValues == {S_auto, S_OscQuery, S_AutoSp, S_empty, S_lan, S_lanSp}
\* --quest-port values tried (argparse default is 9000).
RequestedPorts == {9000, 9002}
\* --min-delta values tried (argparse default is 2).
MinDeltas == {0, 2}
\* Glucose values the provider may report.
Values == {100, 101, 104, 105}

\* Instance names advertised on the network.
ServiceNames == {N_vrc1, N_vrc2, N_obs}

\* Service records get_service_info may return.
I_lan == [parsed |-> <<S_v6, S_svc>>, addresses |-> <<>>, port |-> 8080]
I_loop == [parsed |-> <<S_loop>>, addresses |-> <<>>, port |-> 8080]
I_v6 == [parsed |-> <<S_v6>>, addresses |-> <<[n |-> 16, ip |-> S_v6]>>, port |-> 8080]
I_raw == [parsed |-> <<>>,
          addresses |-> <<[n |-> 16, ip |-> S_v6], [n |-> 4, ip |-> S_svc]>>,
          port |-> 8080]
Infos == {I_lan, I_loop, I_v6, I_raw}

\* HOST_INFO documents a device may serve.
D_quest == [NAME |-> H_quest, OSC_IP |-> S_loopSp, OSC_PORT |-> [t |-> "int", v |-> 9001]]
D_vrc == [NAME |-> H_vrc, OSC_IP |-> S_lan, OSC_PORT |-> [t |-> "str", v |-> S_9001]]
D_lan == [NAME |-> H_quest, OSC_IP |-> S_lan, OSC_PORT |-> [t |-> "str", v |-> S_bad]]
\* A JSON null: a value that is no text.
JsonNull == <<-1>>
D_null == [OSC_IP |-> JsonNull]
\* An OSC_PORT that json.loads reads as the float infinity (1e999, Infinity).
D_inf == [NAME |-> H_vrc, OSC_IP |-> S_lan, OSC_PORT |-> [t |-> "inf", v |-> S_1e999]]
HostInfos == {<<>>, D_quest, D_vrc, D_lan, D_null, D_inf}

\* What one HTTP GET of a HOST_INFO url yields.
Responses ==
    {[kind |-> "error", data |-> <<>>], [kind |-> "nondict", data |-> <<>>]}
    \cup {[kind |-> "dict", data |-> d] : d \in HostInfos}

\* What dex.get_current_glucose_reading() may return: None, a number, an
\* object with a value attribute, or something reading_value does not know.
NoReading == [kind |-> "None", value |-> 0]
Readings ==
    {NoReading, [kind |-> "other", value |-> 0]}
    \cup {[kind |-> "number", value |-> v] : v \in Values}
    \cup {[kind |-> "object", value |-> v] : v \in {100}}

\* A Python value a trend may be: None, a str, or an enum member with a name.
\* Trend texts are written as TLA+ strings; nothing is computed on them.
PyNone == [kind |-> "None", name |-> ""]
PyStr(s) == [kind |-> "str", name |-> s]
PyEnum(n) == [kind |-> "enum", name |-> n]

\* What dex.get_current_trend() does: the client has no such method (an
\* AttributeError), the call raises another error, or it returns a value.
NoDex == [kind |-> "absent", value |-> PyNone]
DexTrends ==
    {NoDex, [kind |-> "raises", value |-> PyNone]}
    \cup {[kind |-> "returns", value |-> v] : v \in {PyNone, PyEnum("Flat"), PyStr("SingleUp")}}

\* The trend attributes a reading object carries, by name.
NoAttrs == <<>>
ReadingAttrs ==
    {NoAttrs,
     [trend |-> PyEnum("FortyFiveUp")],
     [trend |-> PyNone, trend_arrow |-> PyStr("DoubleDown")],
     [trend_arrow |-> PyStr("SingleDown"), trend_description |-> PyStr("falling")]}

\* The attributes of what the fetch returned: a number has none of them.
AttrsOf(reading) == IF reading.kind = "object" THEN ReadingAttrs ELSE {NoAttrs}

\* What the provider and the transport do in one poll cycle: whether the fetch
\* returns and what, what the trend query does and which trend attributes the
\* reading has, whether send_message returns.  A part the cycle never gets to
\* is left at a fixed value.
CycleInputs ==
    {[fetch_ok |-> FALSE, reading |-> NoReading, dex |-> NoDex, attrs |-> NoAttrs,
      send_ok |-> TRUE]}
    \cup {[fetch_ok |-> TRUE, reading |-> r, dex |-> NoDex, attrs |-> NoAttrs,
            send_ok |-> TRUE] : r \in {NoReading, [kind |-> "other", value |-> 0]}}
    \cup {[fetch_ok |-> TRUE, reading |-> ra[1], dex |-> [kind |-> "raises", value |-> PyNone],
            attrs |-> ra[2], send_ok |-> TRUE] :
            ra \in {x \in Readings \X ReadingAttrs : x[2] \in AttrsOf(x[1])}}
    \cup {[fetch_ok |-> TRUE, reading |-> ra[1], dex |-> d, attrs |-> ra[2], send_ok |-> s] :
            ra \in {x \in Readings \X ReadingAttrs :
                        x[1].kind \in {"number", "object"} /\ x[2] \in AttrsOf(x[1])},
            d \in DexTrends \ {[kind |-> "raises", value |-> PyNone]},
            s \in BOOLEAN}

\* ------------------------------------------------------ discovery helpers
\* dict.get(key, default)
Get(d, k, default) == IF k \in DOMAIN d THEN d[k] ELSE default

IsV4Raw(raw) == raw.n = 4
RawIp(raw) == raw.ip
NoColon(ip) == ~Contains(ip, <<58>>)

\* _first_ipv4_from_service_info
FirstIpv4(info) ==
    LET raws == SelectSeq(info.addresses, IsV4Raw)
        addresses == IF info.parsed # <<>> THEN info.parsed
                     ELSE [i \in 1..Len(raws) |-> RawIp(raws[i])]
        v4 == SelectSeq(addresses, NoColon)
    IN  IF v4 = <<>> THEN None ELSE Some(v4[1])

\* _query_host_info: the urls are tried in order, the first JSON object wins.
RECURSIVE QueryHostInfo(_)
QueryHostInfo(resps) ==
    IF resps = <<>> THEN <<>>
    ELSE IF Head(resps).kind = "dict" THEN Head(resps).data
    ELSE QueryHostInfo(Tail(resps))

\* Which urls of _query_host_info were fetched and what each yielded.
RECURSIVE ProbeTrace(_)
ProbeTrace(resps) ==
    IF resps = <<>> THEN <<>>
    ELSE IF Head(resps).kind = "dict" THEN <<"dict">>
    ELSE <<Head(resps).kind>> \o ProbeTrace(Tail(resps))

\* str(value) of a HOST_INFO entry: a text is itself, None is "None".
Str(v) == IF v = JsonNull THEN S_None ELSE v

IsDigit(c) == c >= 48 /\ c <= 57

RECURSIVE DigitsValue(_)
DigitsValue(s) ==
    IF s = <<>> THEN 0 ELSE 10 * DigitsValue(SubSeq(s, 1, Len(s) - 1)) + (s[Len(s)] - 48)

\* int(osc_port) raises OverflowError, which lines 255-258 do not catch.
OscPortRaises(host_info) ==
    Get(host_info, "OSC_PORT", [t |-> "None", v |-> 0]).t = "inf"

\* int(osc_port) if osc_port is not None else 9000, 9000 on TypeError/ValueError
OscPortVal(host_info) ==
    LET osc_port == Get(host_info, "OSC_PORT", [t |-> "None", v |-> 0])
    IN  IF osc_port.t = "int" THEN osc_port.v
        ELSE IF osc_port.t = "str" /\ osc_port.v # <<>>
                /\ \A i \in 1..Len(osc_port.v) : IsDigit(osc_port.v[i])
             THEN DigitsValue(osc_port.v)
        ELSE 9000

\* Variant of TargetIp: a loopback declared address is kept as it is.
TargetIp_declared(osc_ip, service_ip) ==
    IF osc_ip # <<>> THEN osc_ip ELSE service_ip

\* target_ip (lines 260-262)
TargetIp(osc_ip, service_ip) ==
    LET target_ip == IF osc_ip # <<>> THEN osc_ip ELSE service_ip
    IN  IF StartsWith(target_ip, S_127) /\ ~StartsWith(service_ip, S_127)
        THEN service_ip ELSE target_ip

\* Variant of Score: the instance name is searched without lower().
Score_cased(name, host_name, target_ip) ==
    (IF Contains(name, S_vrchat) THEN 100 ELSE 0)
    + (IF Contains(Lower(host_name), S_vrchat) THEN 80 ELSE 0)
    + (IF ~StartsWith(target_ip, S_127) THEN 40 ELSE 0)

\* score (lines 264-272)
Score(name, host_name, target_ip) ==
    (IF Contains(Lower(name), S_vrchat) THEN 100 ELSE 0)
    + (IF Contains(Lower(host_name), S_vrchat) THEN 80 ELSE 0)
    + (IF ~StartsWith(target_ip, S_127) THEN 40 ELSE 0)

\* The dict appended to candidates for one resolved instance (lines 251-280).
Candidate(name, service_ip, host_info) ==
    LET host_name == Str(Get(host_info, "NAME", <<>>))
        osc_ip == Strip(Str(Get(host_info, "OSC_IP", <<>>)))
        target_ip == TargetIp(osc_ip, service_ip)
    IN  [score |-> Score(name, host_name, target_ip),
         target_ip |-> target_ip,
         osc_port |-> OscPortVal(host_info)]

\* Variant of BestIndex: candidates[0] is returned.
BestIndex_first(cands) == 1

\* Variant of BestIndex: the last candidate of maximal score is returned.
BestIndex_last(cands) ==
    CHOOSE i \in 1..Len(cands) :
        /\ \A j \in 1..Len(cands) : cands[j].score <= cands[i].score
        /\ \A j \in (i + 1)..Len(cands) : cands[j].score < cands[i].score

\* max(candidates, key=score): index of the first candidate of maximal score.
BestIndex(cands) ==
    CHOOSE i \in 1..Len(cands) :
        /\ \A j \in 1..Len(cands) : cands[j].score <= cands[i].score
        /\ \A j \in 1..(i - 1) : cands[j].score < cands[i].score

\* Return value of detect_vrchat_osc_endpoint (lines 282-285).
Detected(cands) ==
    IF cands = <<>> THEN None
    ELSE <<cands[BestIndex(cands)].target_ip, cands[BestIndex(cands)].osc_port>>

\* Variant of Requested: the argument is used without strip().
Requested_raw(quest_ip) == quest_ip

\* resolve_quest_endpoint, line 291: requested = (quest_ip or "").strip()
Requested(quest_ip) == Strip(quest_ip)

\* resolve_quest_endpoint, line 292: neither empty nor a sentinel.
IsExplicit(requested) ==
    requested # <<>> /\ Lower(requested) \notin {S_auto, S_oscquery}

\* resolve_quest_endpoint, line 293
ExplicitEndpoint(requested, quest_port) == <<requested, quest_port>>

\* Variant of DetectedEndpoint: the port declared by the device is returned.
DetectedEndpoint_declared(detected, quest_port) == <<detected[1], detected[2]>>

\* resolve_quest_endpoint, lines 303-304
DetectedEndpoint(detected, quest_port) == <<detected[1], quest_port>>

\* ------------------------------------------------------ poll-loop helpers
\* reading_value: the integer, or None when it raises.
ReadingValue(reading) ==
    IF reading.kind \in {"number", "object"} THEN Some(reading.value) ELSE None

\* Variant of ShouldSend: strict comparison with the threshold.
ShouldSend_strict(last, bg, d) == last = None \/ Abs(bg - last[1]) > d

\* Debounce test of line 368.
ShouldSend(last, bg, d) == last = None \/ Abs(bg - last[1]) >= d

\* Truth value of a trend in `if trend:` (line 161).
Truthy(v) == v.kind = "enum" \/ (v.kind = "str" /\ v.name # "")

\* raw.name if hasattr(raw, "name") else str(raw), lines 162 and 169.
TrendText(v) == IF v.kind = "None" THEN "None" ELSE v.name

\* The order in which the fallback looks at the reading, line 166.
TrendAttrs == <<"trend", "trend_arrow", "trend_description">>

\* lines 166-170: the first attribute the reading has, None when it has none.
FirstAttr(attrs) ==
    LET present == {i \in DOMAIN TrendAttrs : TrendAttrs[i] \in DOMAIN attrs}
    IN  IF present = {} THEN None
        ELSE LET i == CHOOSE j \in present : \A k \in present : j <= k
             IN  Some(TrendText(attrs[TrendAttrs[i]]))

\* reading_trend, lines 159-170.  Only AttributeError is caught (line 163).
reading_trend(dex, attrs) ==
    IF dex.kind = "raises" THEN Raise("Exception")
    ELSE IF dex.kind = "returns" /\ Truthy(dex.value)
         THEN Ok(Some(TrendText(dex.value)))
    ELSE Ok(FirstAttr(attrs))

\* What one pass through the try block (lines 362-376) does.
CycleOutcome(fetch_ok, reading, trend_ok, send_ok, last, d) ==
    IF ~fetch_ok THEN "fetch_error"
    ELSE IF ReadingValue(reading) = None THEN "value_error"
    ELSE IF ~trend_ok THEN "trend_error"
    ELSE IF ShouldSend(last, ReadingValue(reading)[1], d)
         THEN (IF send_ok THEN "sent" ELSE "send_error")
    ELSE "no_change"

\* Variant of NextLastBg: last_bg assigned before send_message is called.
NextLastBg_early(outcome, bg, last) ==
    IF outcome \in {"sent", "send_error"} THEN Some(bg) ELSE last

\* last_bg after the cycle: assigned on line 372 only, after send and print.
NextLastBg(outcome, bg, last) == IF outcome = "sent" THEN Some(bg) ELSE last

\* Variant of AfterCycle: the try block has no except clause.
AfterCycle_uncaught(outcome) ==
    IF outcome \in {"fetch_error", "value_error", "trend_error", "send_error"}
    THEN "aborted" ELSE "idle"

\* Where control goes after the try/except: always on to time.sleep (line 378).
AfterCycle(outcome) == "idle"

\* Variant of Proceed: the exception is swallowed and cmd_run carries on.
Proceed_swallow(ok, next) == next

\* A setup statement outside any try block: an exception leaves cmd_run.
Proceed(ok, next) == IF ok THEN next ELSE "aborted"

\* Variant of ResolveResult: a default endpoint instead of SystemExit.
ResolveResult_fallback(det, quest_port) ==
    IF det = None THEN Some(<<S_loop, quest_port>>)
    ELSE Some(DetectedEndpoint(det, quest_port))

\* What resolve_quest_endpoint does with detect's result (lines 296-304):
\* None when it raises SystemExit, else the endpoint it returns.
ResolveResult(det, quest_port) ==
    IF det = None THEN None ELSE Some(DetectedEndpoint(det, quest_port))

\* ----------------------------------------------------------- vault helpers

\* str.encode("utf-8") on one code point below U+0800 (one or two bytes).
Utf8Char(c) == IF c < 128 THEN <<c>> ELSE <<192 + (c \div 64), 128 + (c % 64)>>

RECURSIVE Utf8Encode(_)
Utf8Encode(s) == IF s = <<>> THEN <<>> ELSE Utf8Char(Head(s)) \o Utf8Encode(Tail(s))

\* bytes.decode("utf-8") for one- and two-byte forms.
RECURSIVE Utf8Decode(_)
Utf8Decode(b) ==
    IF b = <<>> THEN Ok(<<>>)
    ELSE IF b[1] < 128
         THEN LET rest == Utf8Decode(Tail(b))
              IN  IF rest.ok THEN Ok(<<b[1]>> \o rest.v) ELSE rest
    ELSE IF b[1] >= 194 /\ b[1] < 224 /\ Len(b) >= 2 /\ b[2] >= 128 /\ b[2] < 192
         THEN LET rest == Utf8Decode(SubSeq(b, 3, Len(b)))
              IN  IF rest.ok
                  THEN Ok(<<(b[1] - 192) * 64 + (b[2] - 128)>> \o rest.v)
                  ELSE rest
    ELSE Raise("UnicodeDecodeError")

\* The base64 alphabet: value 0..63 to character and back (64: not in it).
B64Char(d) ==
    IF d < 26 THEN 65 + d
    ELSE IF d < 52 THEN 71 + d
    ELSE IF d < 62 THEN d - 4
    ELSE IF d = 62 THEN 43 ELSE 47
B64Digit(c) ==
    IF c >= 65 /\ c <= 90 THEN c - 65
    ELSE IF c >= 97 /\ c <= 122 THEN c - 71
    ELSE IF c >= 48 /\ c <= 57 THEN c + 4
    ELSE IF c = 43 THEN 62
    ELSE IF c = 47 THEN 63 ELSE 64

\* base64.b64encode(...).decode("ascii")
RECURSIVE B64Encode(_)
B64Encode(b) ==
    IF b = <<>> THEN <<>>
    ELSE IF Len(b) = 1
         THEN <<B64Char(b[1] \div 4), B64Char((b[1] % 4) * 16), 61, 61>>
    ELSE IF Len(b) = 2
         THEN <<B64Char(b[1] \div 4), B64Char((b[1] % 4) * 16 + (b[2] \div 16)),
                B64Char((b[2] % 16) * 4), 61>>
    ELSE <<B64Char(b[1] \div 4), B64Char((b[1] % 4) * 16 + (b[2] \div 16)),
           B64Char((b[2] % 16) * 4 + (b[3] \div 64)), B64Char(b[3] % 64)>>
         \o B64Encode(SubSeq(b, 4, Len(b)))

\* binascii.a2b_base64 without strict mode: characters outside the alphabet
\* are skipped, the unused low bits of the last character are dropped, input
\* after a complete padding is ignored, an incomplete quad is an error.
RECURSIVE A2bBase64(_, _, _, _, _)
A2bBase64(t, quad_pos, leftchar, pads, out) ==
    IF t = <<>>
    THEN IF quad_pos # 0 THEN Raise("binascii.Error") ELSE Ok(out)
    ELSE LET c == Head(t)
             d == B64Digit(c)
         IN  IF c = 61
             THEN IF quad_pos >= 2 /\ quad_pos + pads + 1 >= 4
                  THEN Ok(out)
                  ELSE A2bBase64(Tail(t), quad_pos, leftchar,
                                 IF quad_pos >= 2 THEN pads + 1 ELSE pads, out)
             ELSE IF d = 64 THEN A2bBase64(Tail(t), quad_pos, leftchar, pads, out)
             ELSE IF quad_pos = 0 THEN A2bBase64(Tail(t), 1, d, 0, out)
             ELSE IF quad_pos = 1
                  THEN A2bBase64(Tail(t), 2, d % 16, 0,
                                 Append(out, leftchar * 4 + (d \div 16)))
             ELSE IF quad_pos = 2
                  THEN A2bBase64(Tail(t), 3, d % 4, 0,
                                 Append(out, leftchar * 16 + (d \div 4)))
             ELSE A2bBase64(Tail(t), 0, 0, 0, Append(out, leftchar * 64 + d))

\* base64.b64decode(text): a str argument must be ASCII.
B64Decode(t) ==
    IF \E i \in 1..Len(t) : t[i] >= 128 THEN Raise("ValueError")
    ELSE A2bBase64(t, 0, 0, 0, <<>>)

HexChar(n) == IF n < 10 THEN 48 + n ELSE 87 + n
HexVal(c) == IF c >= 48 /\ c <= 57 THEN c - 48
             ELSE IF c >= 97 /\ c <= 102 THEN c - 87 ELSE c - 55

\* json.dumps of a str (ensure_ascii): the characters between the quotes.
JsonChar(c) ==
    IF c = 34 \/ c = 92 THEN <<92, c>>
    ELSE IF c = 10 THEN <<92, 110>>
    ELSE IF c = 13 THEN <<92, 114>>
    ELSE IF c = 9 THEN <<92, 116>>
    ELSE IF c = 8 THEN <<92, 98>>
    ELSE IF c = 12 THEN <<92, 102>>
    ELSE IF c >= 32 /\ c <= 126 THEN <<c>>
    ELSE <<92, 117, HexChar(c \div 4096), HexChar((c \div 256) % 16),
           HexChar((c \div 16) % 16), HexChar(c % 16)>>

RECURSIVE JsonDumps(_)
JsonDumps(s) == IF s = <<>> THEN <<>> ELSE JsonChar(Head(s)) \o JsonDumps(Tail(s))

\* json.loads of the characters between the quotes.
RECURSIVE JsonLoads(_)
JsonLoads(j) ==
    IF j = <<>> THEN <<>>
    ELSE IF j[1] # 92 THEN <<j[1]>> \o JsonLoads(Tail(j))
    ELSE IF j[2] = 117
         THEN <<HexVal(j[3]) * 4096 + HexVal(j[4]) * 256 + HexVal(j[5]) * 16
                + HexVal(j[6])>> \o JsonLoads(SubSeq(j, 7, Len(j)))
    ELSE <<IF j[2] = 110 THEN 10 ELSE IF j[2] = 114 THEN 13
           ELSE IF j[2] = 116 THEN 9 ELSE IF j[2] = 98 THEN 8
           ELSE IF j[2] = 102 THEN 12 ELSE j[2]>>
         \o JsonLoads(SubSeq(j, 3, Len(j)))

\* derive_fernet_key: PBKDF2-HMAC-SHA256 of the encoded passphrase and the
\* salt, taken as collision free: the key stands for the pair it came from.
derive_fernet_key(master_passphrase, salt) ==
    [pass |-> Utf8Encode(master_passphrase), salt |-> salt]

\* Fernet(key).encrypt(data): an authenticated ciphertext, which stands for
\* the key and the data sealed in it; `intact` is lost when its bytes change.
FernetEncrypt(key, data) == [key |-> key, data |-> data, intact |-> TRUE]

\* Fernet(key).decrypt(token): the data, or InvalidToken when the signature
\* does not verify under this key.
FernetDecrypt(key, token) ==
    IF token.intact /\ token.key = key THEN Ok(token.data) ELSE Raise("InvalidToken")

\* encrypt_password, with the salt os.urandom(16) returned.
encrypt_password(password, master_passphrase, salt) ==
    LET key == derive_fernet_key(master_passphrase, salt)
        token == FernetEncrypt(key, Utf8Encode(password))
    IN  [salt_b64 |-> B64Encode(salt),
         pw_token |-> [token |-> token, ascii |-> TRUE]]

\* Variant of decrypt_password: the key is derived from the stored text of
\* the salt instead of the decoded salt.
decrypt_password_rawsalt(blob, master_passphrase) ==
    LET pw == FernetDecrypt(derive_fernet_key(master_passphrase, blob.salt_b64),
                            blob.pw_token.token)
    IN  IF pw.ok THEN Utf8Decode(pw.v) ELSE pw

\* decrypt_password: the password, or the exception it raises.
decrypt_password(blob, master_passphrase) ==
    IF "salt_b64" \notin DOMAIN blob THEN Raise("KeyError")
    ELSE LET salt == B64Decode(blob.salt_b64)
         IN  IF ~salt.ok THEN salt
             ELSE IF "pw_token" \notin DOMAIN blob THEN Raise("KeyError")
             ELSE IF ~blob.pw_token.ascii THEN Raise("UnicodeEncodeError")
             ELSE LET key == derive_fernet_key(master_passphrase, salt.v)
                      pw == FernetDecrypt(key, blob.pw_token.token)
                  IN  IF pw.ok THEN Utf8Decode(pw.v) ELSE pw

\* The document save_credentials writes: the payload as json.dumps spells it.
SavedDocument(region, username, encrypted_pw_blob) ==
    [version |-> 1,
     region |-> JsonDumps(region),
     username |-> JsonDumps(username),
     encrypted_password |->
         [salt_b64 |-> JsonDumps(encrypted_pw_blob.salt_b64),
          pw_token |-> encrypted_pw_blob.pw_token]]

\* The encrypted_password entry of the dict load_credentials returns.
LoadedBlob(doc) ==
    LET e == doc.encrypted_password
    IN  [k \in DOMAIN e |-> IF k = "salt_b64" THEN JsonLoads(e[k]) ELSE e[k]]

\* normalize_region: the canonical region, or None when it raises SystemExit.
normalize_region(region) ==
    LET r == Strip(Lower(region))
    IN  IF r \in RegionsUs THEN Some(R_us)
        ELSE IF r \in RegionsOus THEN Some(R_ous)
        ELSE IF r \in RegionsJp THEN Some(R_jp)
        ELSE None

\* ------------------------------------------------------------------ state
VARIABLES
    pc,               \* position of the main thread in cmd_run
    args,             \* parsed command line (quest_ip, quest_port, min_delta)
    setup_done,       \* one-time setup statements of cmd_run that completed
    zc_open,          \* the Zeroconf session `zc` is open
    net,              \* discovery traffic issued so far (session, lookup, probe)
    collector_names,  \* Collector._names
    seen,             \* instance names in the order they were first notified
    notified,         \* notifications delivered by the browse worker
    names,            \* snapshot() result being iterated
    idx,              \* position of the for loop in names
    candidates,       \* candidates list
    built,            \* per candidate: the name and the data it was built from
    detected,         \* return value of detect_vrchat_osc_endpoint
    endpoint,         \* (quest_ip, quest_port) returned by resolve_quest_endpoint
    last_bg,          \* last_bg
    cycle,            \* outcome of the most recent poll cycle
    log,              \* outcomes of the first MaxCycles poll cycles
    trend_call,       \* the reading_trend call of the most recent poll cycle
    recording,        \* what is recorded: "cycles" (log), "fetches" (probes), "trend"
    fs,               \* the config directory and the credential file on disk
    fs_before,        \* fs when the running command was started
    setup_locals,     \* locals of cmd_setup (what was entered, enc_blob)
    tamper,           \* how the stored blob was changed after setup
    run_locals,       \* master and password of cmd_run's lines 345-346
    printed,          \* the last message written to stdout or stderr
    probes            \* what the HOST_INFO fetches for the last instance yielded

vars == <<pc, args, setup_done, zc_open, net, collector_names, seen, notified,
          names, idx, candidates, built, detected, endpoint, last_bg, cycle,
          log, trend_call, recording, fs, fs_before, setup_locals, tamper, run_locals,
          printed, probes>>

discovery_vars == <<zc_open, net, collector_names, seen, notified, names, idx,
                    candidates, built, detected, probes>>
loop_vars == <<last_bg, cycle, log, trend_call>>
vault_vars == <<fs, fs_before, setup_locals, tamper, run_locals>>

SetupSteps == {"import_osc", "cred_file", "load", "decrypt", "create_client",
               "resolve", "udp_client"}
NoTraffic == [session |-> FALSE, lookup |-> FALSE, probe |-> FALSE]
NoCycle == [outcome |-> "none", bg |-> 0]
NoTrendCall == [called |-> FALSE, dex |-> NoDex, attrs |-> NoAttrs, result |-> Ok(None)]

\* A message on stdout or stderr: which statement wrote it and which values
\* its text is built from.
Message(text, src) == [text |-> text, src |-> src]
NoMessage == Message("", {})
\* Uncaught exception raised by library code: the traceback and its message.
Traceback(where, src) == Message(where, src \cup {"library"})
\* lines 356-359
Banner == Message("Running Dexcom(Share)->OSC", {"endpoint", "interval", "min_delta"})

\* Variant of FailureMessage: a failed decrypt reports the passphrase it tried.
FailureMessage_echo(step) ==
    IF step = "decrypt" THEN Message("decrypt_password", {"file", "master"})
    ELSE Message("Missing dependency", {})

\* What a failing setup statement of cmd_run leaves on stderr.
FailureMessage(step) ==
    IF step = "import_osc" THEN Message("Missing dependency", {})
    ELSE IF step = "cred_file" THEN Message("Credential file not found", {"cred_path"})
    ELSE IF step = "load" THEN Traceback("load_credentials", {"file"})
    ELSE IF step = "decrypt" THEN Traceback("decrypt_password", {"file"})
    ELSE IF step = "create_client" THEN Traceback("create_dexcom_client", {"region"})
    ELSE Traceback("SimpleUDPClient", {})

\* What one poll cycle prints (lines 371, 374, 376).
CycleMessage(outcome) ==
    IF outcome = "sent" THEN Message("Sent:", {"bg", "trend"})
    ELSE IF outcome = "no_change" THEN Message("No significant change:", {"bg"})
    ELSE Message("Error:", {"library"})

\* The filesystem before the program has ever run.
NoFs == [cfg_dir |-> FALSE, file |-> None, mode |-> "none"]
NoLocals == [region |-> <<>>, username |-> <<>>, dex_pw |-> <<>>,
             master1 |-> <<>>, master2 |-> <<>>, enc_blob |-> None]
NoRun == [master |-> <<>>, password |-> None]

Args == [quest_ip : RequestedValues, quest_port : RequestedPorts, min_delta : MinDeltas]

\* cmd_run is entered with the parsed arguments.
Init ==
    /\ pc = "import_osc"
    /\ args \in Args
    /\ setup_done = {}
    /\ zc_open = FALSE
    /\ net = NoTraffic
    /\ collector_names = {}
    /\ seen = <<>>
    /\ notified = 0
    /\ names = <<>>
    /\ idx = 1
    /\ candidates = <<>>
    /\ built = <<>>
    /\ probes = <<>>
    /\ detected = None
    /\ endpoint = None
    /\ last_bg = None
    /\ cycle = NoCycle
    /\ log = <<>>
    /\ trend_call = NoTrendCall
    /\ recording = {}
    /\ fs = NoFs
    /\ fs_before = NoFs
    /\ setup_locals = NoLocals
    /\ tamper = "none"
    /\ run_locals = NoRun
    /\ printed = NoMessage

\* One setup statement of cmd_run that either completes or raises.
SetupStep(step, next) ==
    /\ pc = step
    /\ \E ok \in BOOLEAN :
        /\ pc' = Proceed(ok, next)
        /\ setup_done' = IF ok THEN setup_done \cup {step} ELSE setup_done
        /\ printed' = IF ok THEN printed ELSE FailureMessage(step)
    /\ UNCHANGED <<args, discovery_vars, endpoint, loop_vars, recording, vault_vars>>

\* lines 332-335: import of the OSC client library
ImportOsc == SetupStep("import_osc", "cred_file")
\* lines 337-339: the credential file must exist
CheckCredFile == SetupStep("cred_file", "load")
\* lines 341-343: load_credentials, normalize_region, username
LoadCredentials == SetupStep("load", "decrypt")
\* lines 345-346: passphrase prompt and decrypt_password
DecryptPassword == SetupStep("decrypt", "create_client")
\* line 347: create_dexcom_client
CreateDexcomClient == SetupStep("create_client", "resolve")

\* resolve_quest_endpoint, lines 291-295: explicit address or discovery.
ResolveQuestEndpoint ==
    /\ pc = "resolve"
    /\ LET requested == Requested(args.quest_ip)
       IN  IF IsExplicit(requested)
           THEN /\ endpoint' = ExplicitEndpoint(requested, args.quest_port)
                /\ setup_done' = setup_done \cup {"resolve"}
                /\ pc' = "udp_client"
           ELSE /\ pc' = "detect"
                /\ UNCHANGED <<endpoint, setup_done>>
    /\ printed' = printed
    /\ UNCHANGED <<args, discovery_vars, loop_vars, recording, vault_vars>>

\* detect_vrchat_osc_endpoint, lines 212-238: import zeroconf, Zeroconf(),
\* Collector().  A failure raises before a session exists.
DetectStart ==
    /\ pc = "detect"
    /\ \E ok \in BOOLEAN :
        /\ pc' = Proceed(ok, "start_browser")
        /\ zc_open' = ok
        /\ net' = [net EXCEPT !.session = ok]
        /\ printed' = IF ok THEN printed ELSE Traceback("Zeroconf", {})
    /\ UNCHANGED <<args, setup_done, collector_names, seen, notified, names, idx,
                   candidates, built, detected, probes, endpoint, loop_vars,
                   recording, vault_vars>>

\* line 239: ServiceBrowser(...) is constructed before the try block is entered.
StartBrowser ==
    /\ pc = "start_browser"
    /\ \E ok \in BOOLEAN :
        /\ pc' = Proceed(ok, "browse")
        /\ printed' = IF ok THEN printed ELSE Traceback("ServiceBrowser", {})
    /\ UNCHANGED <<args, setup_done, discovery_vars, endpoint, loop_vars, recording, vault_vars>>

\* The browse worker runs from ServiceBrowser(...) until zc.close().
Browsing == pc \in {"browse", "iterate"} /\ zc_open /\ notified < MaxNotify

\* Variant of NoteName: the notified name replaces the set instead of joining it.
NoteName_replace(name) ==
    /\ collector_names' = {name}
    /\ seen' = IF name \in collector_names THEN seen ELSE Append(seen, name)
    /\ notified' = notified + 1
    /\ UNCHANGED <<pc, args, setup_done, zc_open, net, names, idx, candidates,
                   built, detected, probes, endpoint, loop_vars, recording,
                   vault_vars, printed>>

\* Collector.add_service / Collector.update_service body (under the lock).
NoteName(name) ==
    /\ collector_names' = collector_names \cup {name}
    /\ seen' = IF name \in collector_names THEN seen ELSE Append(seen, name)
    /\ notified' = notified + 1
    /\ UNCHANGED <<pc, args, setup_done, zc_open, net, names, idx, candidates,
                   built, detected, probes, endpoint, loop_vars, recording,
                   vault_vars, printed>>

\* Collector.add_service, lines 222-224
AddService == Browsing /\ \E name \in ServiceNames : NoteName(name)

\* Collector.update_service, lines 226-228
UpdateService == Browsing /\ \E name \in ServiceNames : NoteName(name)

\* Collector.remove_service, lines 230-231
RemoveService ==
    /\ Browsing
    /\ notified' = notified + 1
    /\ UNCHANGED <<pc, args, setup_done, zc_open, net, collector_names, seen,
                   names, idx, candidates, built, detected, probes, endpoint,
                   loop_vars, recording, vault_vars, printed>>

\* lines 241-243: the browse window ends, snapshot() is taken.
Snapshot ==
    /\ pc = "browse"
    /\ names' = Sorted(collector_names)
    /\ idx' = 1
    /\ candidates' = <<>>
    /\ built' = <<>>
    /\ probes' = <<>>
    /\ pc' = "iterate"
    /\ printed' = printed
    /\ UNCHANGED <<args, setup_done, zc_open, net, collector_names, seen,
                   notified, detected, endpoint, loop_vars, recording, vault_vars>>

\* One iteration of the for loop, lines 244-280: the instance is skipped, or
\* a candidate is appended, or int(osc_port) raises and the exception leaves
\* detect through the finally clause.
ProcessName ==
    /\ pc = "iterate"
    /\ idx <= Len(names)
    /\ \E info \in {None} \cup {Some(i) : i \in Infos}, r1 \in Responses, r2 \in Responses :
        LET name == names[idx]
            service_ip == IF info = None THEN None ELSE FirstIpv4(info[1])
            host_info == QueryHostInfo(<<r1, r2>>)
        IN  IF service_ip = None \/ service_ip = Some(<<>>)
            THEN /\ net' = [net EXCEPT !.lookup = TRUE]
                 /\ idx' = idx + 1
                 /\ UNCHANGED <<pc, zc_open, collector_names, seen, notified,
                                names, candidates, built, probes, printed>>
            ELSE IF OscPortRaises(host_info)
            THEN /\ net' = [net EXCEPT !.lookup = TRUE, !.probe = TRUE]
                 /\ zc_open' = FALSE
                 /\ pc' = "aborted"
                 /\ printed' = Traceback("int(osc_port)", {"host_info"})
                 /\ collector_names' = {}
                 /\ seen' = <<>>
                 /\ notified' = 0
                 /\ names' = <<>>
                 /\ idx' = 1
                 /\ candidates' = <<>>
                 /\ built' = <<>>
                 /\ probes' = <<>>
            ELSE /\ net' = [net EXCEPT !.lookup = TRUE, !.probe = TRUE]
                 /\ candidates' = Append(candidates,
                                         Candidate(name, service_ip[1], host_info))
                 /\ built' = Append(built, [name |-> name,
                                            service_ip |-> service_ip[1],
                                            host_info |-> host_info])
                 /\ probes' = IF "fetches" \in recording THEN ProbeTrace(<<r1, r2>>) ELSE probes
                 /\ idx' = idx + 1
                 /\ UNCHANGED <<pc, zc_open, collector_names, seen, notified,
                                names, printed>>
    /\ UNCHANGED <<args, setup_done, detected, endpoint, loop_vars, recording,
                   vault_vars>>

\* An exception inside the try block (lines 240-285): finally closes zc and
\* the exception leaves detect, resolve and cmd_run.
DetectRaise ==
    /\ pc \in {"browse", "iterate"}
    /\ zc_open' = FALSE
    /\ pc' = "aborted"
    /\ collector_names' = {}
    /\ seen' = <<>>
    /\ notified' = 0
    /\ names' = <<>>
    /\ idx' = 1
    /\ candidates' = <<>>
    /\ built' = <<>>
    /\ probes' = <<>>
    /\ printed' = Traceback("detect_vrchat_osc_endpoint", {})
    /\ UNCHANGED <<args, setup_done, net, detected, endpoint, loop_vars, recording, vault_vars>>

\* lines 282-287: pick the best candidate, close the session, return.
SelectBest ==
    /\ pc = "iterate"
    /\ idx > Len(names)
    /\ detected' = Detected(candidates)
    /\ zc_open' = FALSE
    /\ pc' = "detected"
    /\ printed' = printed
    /\ probes' = <<>>
    /\ UNCHANGED <<args, setup_done, net, collector_names, seen, notified, names,
                   idx, candidates, built, endpoint, loop_vars, recording, vault_vars>>

\* resolve_quest_endpoint, lines 296-304
ResolveReturn ==
    /\ pc = "detected"
    /\ LET r == ResolveResult(detected, args.quest_port)
       IN  IF r = None
           THEN /\ pc' = "aborted"
                /\ printed' = Message("Could not auto-detect VRChat via OSCQuery", {})
                /\ UNCHANGED <<endpoint, setup_done>>
           ELSE /\ endpoint' = r[1]
                /\ setup_done' = setup_done \cup {"resolve"}
                /\ pc' = "udp_client"
                /\ printed' = printed
    /\ UNCHANGED <<args, discovery_vars, loop_vars, recording, vault_vars>>

\* lines 354-359: SimpleUDPClient(quest_ip, quest_port), last_bg = None.
\* The locals of the discovery call are gone by now.
MakeUdpClient ==
    /\ pc = "udp_client"
    /\ \E ok \in BOOLEAN :
        /\ pc' = Proceed(ok, "poll")
        /\ setup_done' = IF ok THEN setup_done \cup {"udp_client"} ELSE setup_done
        /\ printed' = IF ok THEN Banner ELSE FailureMessage("udp_client")
    /\ last_bg' = None
    /\ collector_names' = {}
    /\ seen' = <<>>
    /\ notified' = 0
    /\ names' = <<>>
    /\ idx' = 1
    /\ candidates' = <<>>
    /\ built' = <<>>
    /\ probes' = <<>>
    /\ detected' = None
    /\ UNCHANGED <<args, zc_open, net, endpoint, cycle, log, trend_call, recording, vault_vars>>

\* One pass of the while loop body up to the sleep, lines 362-376.
PollCycle ==
    /\ pc = "poll"
    /\ "cycles" \in recording => Len(log) < MaxCycles
    /\ \E in \in CycleInputs :
        LET reading == in.reading
            trend == reading_trend(in.dex, in.attrs)
            outcome == CycleOutcome(in.fetch_ok, reading, trend.ok, in.send_ok,
                                    last_bg, args.min_delta)
            bg == IF outcome \in {"sent", "send_error", "no_change"}
                  THEN ReadingValue(reading)[1] ELSE 0
        IN  /\ cycle' = [outcome |-> outcome, bg |-> bg]
            /\ last_bg' = NextLastBg(outcome, bg, last_bg)
            /\ pc' = AfterCycle(outcome)
            /\ log' = IF "cycles" \in recording
                      THEN Append(log, [outcome |-> outcome, bg |-> bg])
                      ELSE log
            /\ trend_call' = IF "trend" \in recording /\ outcome \notin {"fetch_error", "value_error"}
                             THEN [called |-> TRUE, dex |-> in.dex, attrs |-> in.attrs,
                                   result |-> trend]
                             ELSE NoTrendCall
            /\ printed' = CycleMessage(outcome)
    /\ UNCHANGED <<args, setup_done, discovery_vars, endpoint, recording, vault_vars>>

\* line 378: time.sleep(args.interval), then the next pass.
Sleep ==
    /\ pc = "idle"
    /\ pc' = "poll"
    /\ printed' = printed
    /\ UNCHANGED <<args, setup_done, discovery_vars, endpoint, loop_vars, recording, vault_vars>>

Next ==
    \/ ImportOsc
    \/ CheckCredFile
    \/ LoadCredentials
    \/ DecryptPassword
    \/ CreateDexcomClient
    \/ ResolveQuestEndpoint
    \/ DetectStart
    \/ StartBrowser
    \/ AddService
    \/ UpdateService
    \/ RemoveService
    \/ Snapshot
    \/ ProcessName
    \/ DetectRaise
    \/ SelectBest
    \/ ResolveReturn
    \/ MakeUdpClient
    \/ PollCycle
    \/ Sleep

\* The run command from its entry.
Spec == Init /\ [][Next]_vars

\* The poll loop on its own, from the state in which cmd_run enters it with an
\* explicit address, every cycle recorded.
LoopInit ==
    /\ pc = "poll"
    /\ args \in [quest_ip : {S_lan}, quest_port : {9000}, min_delta : MinDeltas]
    /\ setup_done = SetupSteps
    /\ zc_open = FALSE
    /\ net = NoTraffic
    /\ collector_names = {}
    /\ seen = <<>>
    /\ notified = 0
    /\ names = <<>>
    /\ idx = 1
    /\ candidates = <<>>
    /\ built = <<>>
    /\ probes = <<>>
    /\ detected = None
    /\ endpoint = <<S_lan, 9000>>
    /\ last_bg = None
    /\ cycle = NoCycle
    /\ log = <<>>
    /\ trend_call = NoTrendCall
    /\ recording = {"cycles", "fetches"}
    /\ fs = NoFs
    /\ fs_before = NoFs
    /\ setup_locals = NoLocals
    /\ tamper = "none"
    /\ run_locals = NoRun
    /\ printed = Banner

\* The same entry state with no cycle recorded, so that the loop is not cut off.
LiveInit ==
    /\ pc = "poll"
    /\ args \in [quest_ip : {S_lan}, quest_port : {9000}, min_delta : MinDeltas]
    /\ setup_done = SetupSteps
    /\ zc_open = FALSE
    /\ net = NoTraffic
    /\ collector_names = {}
    /\ seen = <<>>
    /\ notified = 0
    /\ names = <<>>
    /\ idx = 1
    /\ candidates = <<>>
    /\ built = <<>>
    /\ probes = <<>>
    /\ detected = None
    /\ endpoint = <<S_lan, 9000>>
    /\ last_bg = None
    /\ cycle = NoCycle
    /\ log = <<>>
    /\ trend_call = NoTrendCall
    /\ recording = {}
    /\ fs = NoFs
    /\ fs_before = NoFs
    /\ setup_locals = NoLocals
    /\ tamper = "none"
    /\ run_locals = NoRun
    /\ printed = Banner

LoopNext == PollCycle \/ Sleep

LoopSpec == LoopInit /\ [][LoopNext]_vars

\* The loop under the scheduling of a single thread that keeps running:
\* a pending statement is eventually executed.
LoopLive == LiveInit /\ [][LoopNext]_vars /\ WF_vars(PollCycle) /\ WF_vars(Sleep)

\* The poll loop with the reading_trend call of each cycle recorded.
TrendInit ==
    /\ pc = "poll"
    /\ args \in [quest_ip : {S_lan}, quest_port : {9000}, min_delta : MinDeltas]
    /\ setup_done = SetupSteps
    /\ zc_open = FALSE
    /\ net = NoTraffic
    /\ collector_names = {}
    /\ seen = <<>>
    /\ notified = 0
    /\ names = <<>>
    /\ idx = 1
    /\ candidates = <<>>
    /\ built = <<>>
    /\ probes = <<>>
    /\ detected = None
    /\ endpoint = <<S_lan, 9000>>
    /\ last_bg = None
    /\ cycle = NoCycle
    /\ log = <<>>
    /\ trend_call = NoTrendCall
    /\ recording = {"trend"}
    /\ fs = NoFs
    /\ fs_before = NoFs
    /\ setup_locals = NoLocals
    /\ tamper = "none"
    /\ run_locals = NoRun
    /\ printed = Banner

TrendSpec == TrendInit /\ [][LoopNext]_vars

\* ------------------------------------------- the setup command, the vault
\* Number of bytes of salt encrypt_password draws (line 58).
SaltBytes == 16
\* Values os.urandom may return.
Salt_a == [i \in 1..SaltBytes |-> i - 1]
Salt_b == [i \in 1..SaltBytes |-> 255 - i]
Salts == {Salt_a, Salt_b}

\* --region values tried (argparse default is "us").
RegionArgs == {R_us, R_EU, R_xx}
\* --username values tried (argparse default is None) and answers to its prompt.
UsernameArgs == {None, U_bob}
UsernamePrompts == {S_blank, U_quote}
\* Answers to the getpass prompts.
PasswordPrompts == {S_blank, W_s3, W_pe}
MasterPrompts == {S_empty, P_one, P_two}

\* A credential file left by an earlier setup.
OldDocument == SavedDocument(R_us, U_bob, encrypt_password(W_pe, P_one, Salt_a))
OldFs == [cfg_dir |-> TRUE, file |-> Some(OldDocument), mode |-> "0600"]
EmptyFs == [cfg_dir |-> TRUE, file |-> None, mode |-> "none"]
FsStates == {NoFs, EmptyFs, OldFs}

\* Ways the stored encrypted_password entry is changed behind the program's
\* back: the salt text respelled (other unused low bits in its last
\* character, a space put in front), cut short, changed, made non-ASCII or
\* removed; the token's bytes changed, its text made non-ASCII, or removed.
TamperKinds == {"salt_respelled", "salt_spaced", "salt_truncated", "salt_changed",
                "salt_nonascii", "salt_missing", "token_changed",
                "token_nonascii", "token_missing"}

Tampered(doc, kind) ==
    LET e == doc.encrypted_password
        salt == e.salt_b64
        With(ne) == [doc EXCEPT !.encrypted_password = ne]
    IN  IF kind = "salt_respelled"
        THEN With([e EXCEPT !.salt_b64 =
                      [salt EXCEPT ![Len(salt) - 2] = B64Char(B64Digit(@) + 1)]])
        ELSE IF kind = "salt_spaced" THEN With([e EXCEPT !.salt_b64 = <<32>> \o salt])
        ELSE IF kind = "salt_truncated"
             THEN With([e EXCEPT !.salt_b64 = SubSeq(salt, 1, Len(salt) - 1)])
        ELSE IF kind = "salt_changed"
             THEN With([e EXCEPT !.salt_b64 =
                           [salt EXCEPT ![1] = B64Char((B64Digit(@) + 1) % 64)]])
        ELSE IF kind = "salt_nonascii"
             THEN With([e EXCEPT !.salt_b64 = [salt EXCEPT ![1] = 233]])
        ELSE IF kind = "salt_missing" THEN With([k \in {"pw_token"} |-> e[k]])
        ELSE IF kind = "token_changed"
             THEN With([e EXCEPT !.pw_token.token.intact = FALSE])
        ELSE IF kind = "token_nonascii" THEN With([e EXCEPT !.pw_token.ascii = FALSE])
        ELSE With([k \in {"salt_b64"} |-> e[k]])

\* A SystemExit raised by cmd_setup: its message, nothing else happens.
SetupExit(text) ==
    /\ pc' = "aborted"
    /\ printed' = Message(text, {})
    /\ UNCHANGED <<fs, setup_locals>>

\* main, lines 421-423: build_parser evaluates default_cred_path(), which
\* creates the config directory (line 32), then the command is dispatched.
Main(cmd) ==
    /\ pc = "main"
    /\ \E ok \in {TRUE} \cup {fs.cfg_dir} :
        IF ok
        THEN /\ fs' = [fs EXCEPT !.cfg_dir = TRUE]
             /\ pc' = IF cmd = "setup" THEN "setup_region" ELSE "import_osc"
             /\ printed' = printed
        ELSE /\ pc' = "aborted"
             /\ printed' = Traceback("default_cred_path", {"home"})
             /\ fs' = fs
    /\ UNCHANGED <<args, setup_done, discovery_vars, endpoint, loop_vars, recording,
                   fs_before, setup_locals, tamper, run_locals>>

MainSetup == Main("setup")
MainRun == Main("run")

\* cmd_setup, line 309
SetupRegion ==
    /\ pc = "setup_region"
    /\ \E region \in RegionArgs :
        LET r == normalize_region(region)
        IN  IF r = None
            THEN SetupExit("Region must be one of: us, ous, jp")
            ELSE /\ setup_locals' = [setup_locals EXCEPT !.region = r[1]]
                 /\ pc' = "setup_username"
                 /\ UNCHANGED <<fs, printed>>
    /\ UNCHANGED <<args, setup_done, discovery_vars, endpoint, loop_vars, recording,
                   fs_before, tamper, run_locals>>

\* cmd_setup, lines 311-313
SetupUsername ==
    /\ pc = "setup_username"
    /\ \E given \in UsernameArgs, answer \in UsernamePrompts :
        LET username == IF given # <<>> THEN given ELSE Strip(answer)
        IN  IF username = <<>>
            THEN SetupExit("Username is required.")
            ELSE /\ setup_locals' = [setup_locals EXCEPT !.username = username]
                 /\ pc' = "setup_password"
                 /\ UNCHANGED <<fs, printed>>
    /\ UNCHANGED <<args, setup_done, discovery_vars, endpoint, loop_vars, recording,
                   fs_before, tamper, run_locals>>

\* cmd_setup, lines 315-317
SetupPassword ==
    /\ pc = "setup_password"
    /\ \E answer \in PasswordPrompts :
        LET dex_pw == Strip(answer)
        IN  IF dex_pw = <<>>
            THEN SetupExit("Dexcom password is required.")
            ELSE /\ setup_locals' = [setup_locals EXCEPT !.dex_pw = dex_pw]
                 /\ pc' = "setup_master"
                 /\ UNCHANGED <<fs, printed>>
    /\ UNCHANGED <<args, setup_done, discovery_vars, endpoint, loop_vars, recording,
                   fs_before, tamper, run_locals>>

\* cmd_setup, lines 319-324
SetupMaster ==
    /\ pc = "setup_master"
    /\ \E answer1 \in MasterPrompts, answer2 \in MasterPrompts :
        LET master1 == Strip(answer1)
            master2 == Strip(answer2)
        IN  IF master1 = <<>>
            THEN SetupExit("Master passphrase is required.")
            ELSE IF master1 # master2
            THEN SetupExit("Master passphrases did not match. Aborting.")
            ELSE /\ setup_locals' = [setup_locals EXCEPT !.master1 = master1,
                                                         !.master2 = master2]
                 /\ pc' = "setup_encrypt"
                 /\ UNCHANGED <<fs, printed>>
    /\ UNCHANGED <<args, setup_done, discovery_vars, endpoint, loop_vars, recording,
                   fs_before, tamper, run_locals>>

\* cmd_setup, line 326: encrypt_password, or SystemExit when the cryptography
\* package is missing.
SetupEncrypt ==
    /\ pc = "setup_encrypt"
    /\ \E installed \in BOOLEAN, salt \in Salts :
        IF installed
        THEN /\ setup_locals' =
                    [setup_locals EXCEPT !.enc_blob =
                        Some(encrypt_password(setup_locals.dex_pw,
                                              setup_locals.master1, salt))]
             /\ pc' = "setup_save"
             /\ printed' = printed
        ELSE /\ pc' = "aborted"
             /\ printed' = FailureMessage("import_osc")
             /\ UNCHANGED setup_locals
    /\ UNCHANGED <<args, setup_done, discovery_vars, endpoint, loop_vars, recording,
                   fs, fs_before, tamper, run_locals>>

\* cmd_setup, line 327: save_credentials (lines 79-91).  A write that fails
\* raises OSError before the file is opened; a chmod that fails is ignored.
SetupSave ==
    /\ pc = "setup_save"
    /\ \E written \in BOOLEAN, chmod_ok \in BOOLEAN :
        IF written
        THEN /\ fs' = [cfg_dir |-> TRUE,
                       file |-> Some(SavedDocument(setup_locals.region,
                                                   setup_locals.username,
                                                   setup_locals.enc_blob[1])),
                       mode |-> IF chmod_ok THEN "0600"
                                ELSE IF fs.file = None THEN "umask" ELSE fs.mode]
             /\ pc' = "setup_print"
             /\ printed' = printed
        ELSE /\ fs' = [fs EXCEPT !.cfg_dir = TRUE]
             /\ pc' = "aborted"
             /\ printed' = Traceback("save_credentials", {"cred_path"})
    /\ UNCHANGED <<args, setup_done, discovery_vars, endpoint, loop_vars, recording,
                   fs_before, setup_locals, tamper, run_locals>>

\* cmd_setup, line 328
SetupPrint ==
    /\ pc = "setup_print"
    /\ printed' = Message("Saved encrypted credentials to:", {"cred_path"})
    /\ pc' = "exit"
    /\ UNCHANGED <<args, setup_done, discovery_vars, endpoint, loop_vars, recording,
                   vault_vars>>

\* Between setup and the next run the stored blob is changed.
Tamper ==
    /\ pc = "exit"
    /\ tamper = "none"
    /\ \E kind \in TamperKinds :
        /\ fs' = [fs EXCEPT !.file = Some(Tampered(fs.file[1], kind))]
        /\ tamper' = kind
    /\ UNCHANGED <<pc, args, setup_done, discovery_vars, endpoint, loop_vars,
                   recording, fs_before, setup_locals, run_locals, printed>>

\* A later run command on the stored file, up to line 343: the file exists,
\* load_credentials, normalize_region and the username succeed.
RunLoad ==
    /\ pc = "exit"
    /\ fs_before' = fs
    /\ pc' = "run_decrypt"
    /\ UNCHANGED <<args, setup_done, discovery_vars, endpoint, loop_vars, recording,
                   fs, setup_locals, tamper, run_locals, printed>>

\* cmd_run, lines 345-346: the passphrase prompt and decrypt_password on the
\* blob load_credentials returned.
RunDecrypt ==
    /\ pc = "run_decrypt"
    /\ \E answer \in MasterPrompts :
        LET master == Strip(answer)
            password == decrypt_password(LoadedBlob(fs.file[1]), master)
        IN  /\ run_locals' = [master |-> master, password |-> Some(password)]
            /\ pc' = IF password.ok THEN "run_decrypted" ELSE "aborted"
            /\ printed' = IF password.ok THEN printed
                          ELSE Traceback(password.err, {"file"})
    /\ UNCHANGED <<args, setup_done, discovery_vars, endpoint, loop_vars, recording,
                   fs, fs_before, setup_locals, tamper>>

\* main entered: nothing has run in this process.
MainInit(argset, fsset) ==
    /\ pc = "main"
    /\ args \in argset
    /\ setup_done = {}
    /\ zc_open = FALSE
    /\ net = NoTraffic
    /\ collector_names = {}
    /\ seen = <<>>
    /\ notified = 0
    /\ names = <<>>
    /\ idx = 1
    /\ candidates = <<>>
    /\ built = <<>>
    /\ probes = <<>>
    /\ detected = None
    /\ endpoint = None
    /\ last_bg = None
    /\ cycle = NoCycle
    /\ log = <<>>
    /\ trend_call = NoTrendCall
    /\ recording = {}
    /\ fs \in fsset
    /\ fs_before = fs
    /\ setup_locals = NoLocals
    /\ tamper = "none"
    /\ run_locals = NoRun
    /\ printed = NoMessage

VaultInit ==
    MainInit([quest_ip : {S_lan}, quest_port : {9000}, min_delta : {2}], FsStates)

VaultNext ==
    \/ MainSetup
    \/ SetupRegion
    \/ SetupUsername
    \/ SetupPassword
    \/ SetupMaster
    \/ SetupEncrypt
    \/ SetupSave
    \/ SetupPrint
    \/ Tamper
    \/ RunLoad
    \/ RunDecrypt

\* The setup command from main, then the start of a run on the stored file.
VaultSpec == VaultInit /\ [][VaultNext]_vars

AppInit ==
    MainInit([quest_ip : {S_auto, S_lan}, quest_port : {9000}, min_delta : {2}],
             {NoFs, OldFs})

AppNext == VaultNext \/ MainRun \/ Next

\* The program from main with either command.
AppSpec == AppInit /\ [][AppNext]_vars

\* detect_vrchat_osc_endpoint entered from resolve_quest_endpoint (line 295)
\* with --quest-ip auto, every HOST_INFO fetch recorded.
DiscoveryInit ==
    /\ pc = "detect"
    /\ args \in [quest_ip : {S_auto}, quest_port : {9000}, min_delta : {2}]
    /\ setup_done = {"import_osc", "cred_file", "load", "decrypt", "create_client"}
    /\ zc_open = FALSE
    /\ net = NoTraffic
    /\ collector_names = {}
    /\ seen = <<>>
    /\ notified = 0
    /\ names = <<>>
    /\ idx = 1
    /\ candidates = <<>>
    /\ built = <<>>
    /\ probes = <<>>
    /\ detected = None
    /\ endpoint = None
    /\ last_bg = None
    /\ cycle = NoCycle
    /\ log = <<>>
    /\ trend_call = NoTrendCall
    /\ recording = {"cycles", "fetches"}
    /\ fs = NoFs
    /\ fs_before = NoFs
    /\ setup_locals = NoLocals
    /\ tamper = "none"
    /\ run_locals = NoRun
    /\ printed = NoMessage

DiscoveryNext ==
    \/ DetectStart
    \/ StartBrowser
    \/ AddService
    \/ UpdateService
    \/ RemoveService
    \/ Snapshot
    \/ ProcessName
    \/ DetectRaise
    \/ SelectBest
    \/ ResolveReturn

\* One discovery call and what resolve_quest_endpoint makes of its result.
DiscoverySpec == DiscoveryInit /\ [][DiscoveryNext]_vars

TypeOK ==
    /\ pc \in {"import_osc", "cred_file", "load", "decrypt", "create_client",
               "resolve", "detect", "start_browser", "browse", "iterate",
               "detected", "udp_client", "poll", "idle", "aborted", "main",
               "setup_region", "setup_username", "setup_password",
               "setup_master", "setup_encrypt", "setup_save", "setup_print",
               "exit", "run_decrypt", "run_decrypted"}
    /\ args \in Args
    /\ setup_done \subseteq SetupSteps
    /\ zc_open \in BOOLEAN
    /\ collector_names \subseteq ServiceNames
    /\ notified \in 0..MaxNotify
    /\ Len(candidates) = Len(built)
    /\ Len(log) <= MaxCycles
    /\ recording \subseteq {"cycles", "fetches", "trend"}
    /\ trend_call.called \in BOOLEAN
    /\ trend_call.dex \in DexTrends
    /\ trend_call.attrs \in ReadingAttrs
    /\ last_bg \in {None} \cup {Some(v) : v \in Values}

\* ================================================================ claims
FailureOutcomes == {"fetch_error", "value_error", "trend_error", "send_error"}
\* The cycle fetched a reading and normalized it to a value.
Normalized(c) == c.outcome \in {"sent", "send_error", "no_change"}
\* A PollCycle step.
CycleStep == pc = "poll" /\ pc' = "idle"
\* last_sent_value is none or |v - last_sent_value| >= min_delta
Significant(last, v, d) ==
    last = None \/ (IF v >= last[1] THEN v - last[1] ELSE last[1] - v) >= d

LogBgs == [i \in 1..Len(log) |-> log[i].bg]
LogOutcomes == [i \in 1..Len(log) |-> log[i].outcome]
LogClean == \A i \in 1..Len(log) : log[i].outcome \in {"sent", "no_change"}

C2_FailedCycleKeepsLast ==
    [][(CycleStep /\ cycle'.outcome \in FailureOutcomes) => last_bg' = last_bg]_vars

\* C2 witness: a send failed for a value other than the recorded one.
C2_Witness ==
    /\ cycle.outcome = "send_error"
    /\ last_bg # None
    /\ last_bg # Some(cycle.bg)
    /\ \E i \in 1..Len(log) : log[i].outcome = "fetch_error"
    /\ \E i \in 1..Len(log) : log[i].outcome \in {"value_error", "trend_error"}

\* C3: once started the poll loop has no terminal state: every cycle, whatever
\* its outcome, is followed by the interval sleep, every sleep by another
\* cycle, and a fetch is attempted infinitely often.
C3_LoopNeverEnds ==
    /\ [](pc \in {"poll", "idle"})
    /\ [][pc = "poll" => pc' \in {"poll", "idle"}]_vars
    /\ [][pc = "idle" => pc' \in {"idle", "poll"}]_vars
    /\ (pc = "poll") ~> (pc = "idle")
    /\ (pc = "idle") ~> (pc = "poll")
    /\ []<><<PollCycle>>_vars

\* C3 witness: the loop is polling again after a cycle that failed in send.
C3_Witness == pc = "poll" /\ cycle.outcome = "send_error" /\ last_bg # None

\* C4: no fetch and no transmission happens in run unless credential loading,
\* vault decryption, provider-client construction and endpoint resolution all
\* completed; a failed setup step aborts before the first poll cycle and the
\* abort is final.
C4_SetupBeforeLoop ==
    /\ []((cycle # NoCycle \/ pc \in {"poll", "idle"}) =>
            {"load", "decrypt", "create_client", "resolve"} \subseteq setup_done)
    /\ [](pc = "aborted" => cycle = NoCycle /\ last_bg = None)
    /\ [][pc = "aborted" => pc' = "aborted"]_vars

\* C4 witness: decryption failed after the credentials were loaded; nothing
\* was fetched.
C4_Witness ==
    /\ pc = "aborted"
    /\ "load" \in setup_done
    /\ "decrypt" \notin setup_done
    /\ cycle = NoCycle

DiscoveryPcs == {"detect", "start_browser", "browse", "iterate", "detected"}
Sentinels == {S_auto, S_oscquery}

\* C5 as stated: resolve called with any requested value other than the
\* sentinels "auto" and "oscquery" (case-insensitive) returns exactly
\* (requested, requested_port) and performs no discovery.
C5_AsStated ==
    Lower(args.quest_ip) \notin Sentinels =>
        /\ pc \notin DiscoveryPcs
        /\ net = NoTraffic
        /\ "resolve" \in setup_done => endpoint = <<args.quest_ip, args.quest_port>>

\* C5 amended: resolve called with a requested value that, once surrounding
\* whitespace is trimmed, is non-empty and is not one of the sentinels "auto"
\* and "oscquery" (case-insensitive) returns exactly (trimmed requested,
\* requested_port) and performs no discovery: no browse session is opened, no
\* address is resolved and no metadata probe is issued.
C5_ExplicitAddress ==
    LET trimmed == Strip(args.quest_ip)
    IN  (trimmed # <<>> /\ Lower(trimmed) \notin Sentinels) =>
            /\ pc \notin DiscoveryPcs
            /\ net = NoTraffic
            /\ "resolve" \in setup_done => endpoint = <<trimmed, args.quest_port>>

\* C5 witness: " 10.0.0.5 " was resolved to ("10.0.0.5", port) with no traffic.
C5_Witness ==
    /\ args.quest_ip = S_lanSp
    /\ "resolve" \in setup_done
    /\ endpoint = <<S_lan, args.quest_port>>
    /\ net = NoTraffic

\* C6: whenever resolve returns, the returned port is the caller's
\* requested_port, for an explicit address and under auto-discovery alike; the
\* port a candidate declares (or its 9000 default) never changes it.
C6_RequestedPort == endpoint # None => endpoint[2] = args.quest_port

\* C6 witness: discovery chose a candidate declaring port 9001 and resolve
\* returned the requested port, which differs.
C6_Witness ==
    /\ pc = "udp_client"
    /\ detected # None
    /\ detected[2] = 9001
    /\ args.quest_port # 9001
    /\ endpoint = <<detected[1], args.quest_port>>

\* C7: under auto-discovery, if no candidate is produced (no name seen, or
\* every seen instance fails resolution or has no IPv4 address) resolve raises
\* a fatal error, returns no endpoint, and the poll loop is never started.
C7_NoCandidateIsFatal ==
    /\ []((pc = "detected" /\ candidates = <<>>) => (detected = None /\ endpoint = None))
    /\ [][(pc = "detected" /\ candidates = <<>>) =>
            (pc' \in {"detected", "aborted"} /\ endpoint' = None)]_vars
    /\ [][pc = "aborted" => (pc' = "aborted" /\ endpoint' = endpoint)]_vars

\* C7 witness: names were seen, none yielded a candidate, and run was aborted
\* by resolve.
C7_Witness ==
    /\ pc = "aborted"
    /\ names # <<>>
    /\ idx > Len(names)
    /\ candidates = <<>>
    /\ net.lookup
    /\ endpoint = None
    /\ cycle = NoCycle

\* C8: when auto-discovery produces at least one candidate, the IP resolve
\* returns is the chosen IP of a candidate whose score is at least the score
\* of every other candidate of that discovery attempt.
C8_MaxScore ==
    (pc \in {"detected", "udp_client"} /\ candidates # <<>>) =>
        LET ip == IF pc = "detected" THEN detected[1] ELSE endpoint[1]
        IN  \E i \in 1..Len(candidates) :
                /\ candidates[i].target_ip = ip
                /\ \A j \in 1..Len(candidates) :
                       candidates[j].score <= candidates[i].score

\* C8 witness: the second of two candidates scores higher and its IP, which
\* differs from the first one's, was returned.
C8_Witness ==
    /\ pc = "udp_client"
    /\ Len(candidates) = 2
    /\ candidates[1].score < candidates[2].score
    /\ candidates[1].target_ip # candidates[2].target_ip
    /\ endpoint[1] = candidates[2].target_ip

\* Candidates of maximal score.
Tied ==
    {i \in 1..Len(candidates) :
        \A j \in 1..Len(candidates) : candidates[j].score <= candidates[i].score}
\* Position of an instance name in the order of first notification.
SeenPos(name) == CHOOSE k \in 1..Len(seen) : seen[k] = name

\* C9 as stated: when several candidates share the maximum score, the one
\* selected is the one whose instance name was seen first in the browse window.
C9_AsStated ==
    (pc = "detected" /\ candidates # <<>>) =>
        \E i \in Tied :
            /\ \A j \in Tied : SeenPos(built[i].name) <= SeenPos(built[j].name)
            /\ detected[1] = candidates[i].target_ip

\* C9 amended: when several candidates share the maximum score, the one
\* selected is the one whose instance name comes first in sorted (code point)
\* order of the names, whatever the order in which the names were seen.
C9_SortedFirstWins ==
    (pc = "detected" /\ candidates # <<>>) =>
        \E i \in Tied :
            /\ \A j \in Tied \ {i} : StrLess(built[i].name, built[j].name)
            /\ detected[1] = candidates[i].target_ip
            /\ detected[2] = candidates[i].osc_port

\* C9 witness: two candidates tie, the one seen second sorts first and was
\* selected.
C9_Witness ==
    /\ pc = "detected"
    /\ Len(candidates) = 2
    /\ candidates[1].score = candidates[2].score
    /\ candidates[1].target_ip # candidates[2].target_ip
    /\ SeenPos(built[2].name) < SeenPos(built[1].name)
    /\ detected[1] = candidates[1].target_ip

\* The text contains "vrchat", letter case ignored.
HasVrchat(s) ==
    \E k \in 1..(Len(s) - 5) : \A m \in 1..6 : LowerChar(s[k + m - 1]) = S_vrchat[m]
\* The address text is in 127.0.0.0/8.
IsLoopback(ip) == Len(ip) >= 4 /\ ip[1] = 49 /\ ip[2] = 50 /\ ip[3] = 55 /\ ip[4] = 46

\* C10: each candidate's score is exactly 100 if the instance name contains
\* "vrchat" (case-insensitive) plus 80 if the declared host name does plus 40
\* if the chosen IP is not loopback; "VRChat-Client-1" on host "Quest-HMD" with
\* a non-loopback chosen IP scores 140.
C10_Score ==
    \A i \in 1..Len(candidates) :
        LET host_name == IF "NAME" \in DOMAIN built[i].host_info
                         THEN built[i].host_info.NAME ELSE <<>>
        IN  /\ candidates[i].score =
                  (IF HasVrchat(built[i].name) THEN 100 ELSE 0)
                  + (IF HasVrchat(host_name) THEN 80 ELSE 0)
                  + (IF IsLoopback(candidates[i].target_ip) THEN 0 ELSE 40)
            /\ (built[i].name = N_vrc1 /\ host_name = H_quest
                    /\ ~IsLoopback(candidates[i].target_ip))
                  => candidates[i].score = 140

\* C10 witness: "VRChat-Client-1" on host "Quest-HMD" with a non-loopback
\* chosen IP has been scored 140.
C10_Witness ==
    \E i \in 1..Len(candidates) :
        /\ built[i].name = N_vrc1
        /\ "NAME" \in DOMAIN built[i].host_info
        /\ built[i].host_info.NAME = H_quest
        /\ ~IsLoopback(candidates[i].target_ip)
        /\ candidates[i].score = 140

\* Declared OSC_IP of the metadata a candidate was built from, as the code
\* reads it: str(host_info.get("OSC_IP", "")).strip()
DeclaredIp(b) ==
    IF "OSC_IP" \in DOMAIN b.host_info THEN Strip(b.host_info.OSC_IP) ELSE <<>>
DeclaredName(b) ==
    IF "NAME" \in DOMAIN b.host_info THEN b.host_info.NAME ELSE <<>>
\* Neither name matches, the declared OSC_IP is loopback and the resolved
\* service IP is not: the chosen IP is the substituted service IP.
Substituted(i) ==
    /\ ~HasVrchat(built[i].name)
    /\ ~HasVrchat(DeclaredName(built[i]))
    /\ IsLoopback(DeclaredIp(built[i]))
    /\ ~IsLoopback(built[i].service_ip)

\* C11 as stated: a candidate whose instance name and declared host name both
\* lack "vrchat" and whose declared loopback OSC_IP was replaced by the
\* non-loopback resolved service IP scores 0.
C11_AsStated ==
    \A i \in 1..Len(candidates) : Substituted(i) => candidates[i].score = 0

\* C11 amended: such a candidate has the service IP as chosen IP and scores 40
\* (the chosen IP is not loopback); a candidate with neither name match scores
\* 0 only when its chosen IP is still loopback; and when another candidate
\* scores higher, the endpoint detect returns is that of a higher-scoring
\* candidate.
C11_SubstitutedScores40 ==
    \A i \in 1..Len(candidates) :
        /\ Substituted(i) =>
              /\ candidates[i].target_ip = built[i].service_ip
              /\ candidates[i].score = 40
              /\ (pc = "detected"
                    /\ \E j \in 1..Len(candidates) :
                          candidates[j].score > candidates[i].score)
                 => \E k \in 1..Len(candidates) :
                        /\ candidates[k].score > candidates[i].score
                        /\ detected = <<candidates[k].target_ip,
                                        candidates[k].osc_port>>
        /\ (~HasVrchat(built[i].name) /\ ~HasVrchat(DeclaredName(built[i])))
              => (candidates[i].score = 0 <=> IsLoopback(candidates[i].target_ip))

\* C11 witness: a loopback-substituted candidate without a name match scored
\* 40 and detect returned the endpoint of the other, higher-scoring candidate.
C11_Witness ==
    /\ pc = "detected"
    /\ Len(candidates) = 2
    /\ \E i \in 1..2 :
        /\ Substituted(i)
        /\ candidates[i].score = 40
        /\ candidates[3 - i].score > 40
        /\ candidates[3 - i].target_ip # candidates[i].target_ip
        /\ detected[1] = candidates[3 - i].target_ip

\* Passphrases and secrets the prompts can yield.
Passphrases == {Strip(a) : a \in MasterPrompts}
Secrets == {Strip(a) : a \in PasswordPrompts}

\* C12: for every passphrase P and secret S, decrypt(encrypt(S, P), P)
\* returns S, whatever salt was drawn; and after setup saved the record, the
\* blob a run loads from the unchanged file decrypts to the secret entered at
\* setup under the passphrase entered at setup.
C12_RoundTrip ==
    /\ \A P \in Passphrases, S \in Secrets, salt \in Salts :
           decrypt_password(encrypt_password(S, P, salt), P) = Ok(S)
    /\ setup_locals.enc_blob # None =>
           decrypt_password(setup_locals.enc_blob[1], setup_locals.master1)
               = Ok(setup_locals.dex_pw)
    /\ (run_locals.password # None /\ tamper = "none"
            /\ run_locals.master = setup_locals.master1)
         => run_locals.password[1] = Ok(setup_locals.dex_pw)

\* C12 witness: a secret and a passphrase with a non-ASCII character and a
\* username that json.dumps escapes were saved, and the run got the secret
\* back from the file.
C12_Witness ==
    /\ pc = "run_decrypted"
    /\ tamper = "none"
    /\ setup_locals.dex_pw = W_pe
    /\ setup_locals.master1 = Strip(P_two)
    /\ setup_locals.username = Strip(U_quote)
    /\ fs.file[1].username # setup_locals.username
    /\ LoadedBlob(fs.file[1]) = setup_locals.enc_blob[1]
    /\ run_locals.password[1] = Ok(W_pe)

\* The run decrypted a blob that was changed after setup, or used another
\* passphrase than the one entered at setup.
WrongOrTampered ==
    /\ run_locals.password # None
    /\ tamper # "none" \/ run_locals.master # setup_locals.master1

\* C13 as stated: decrypt with a wrong passphrase, or with a blob whose salt
\* or token was corrupted or tampered with, never returns a plaintext: it
\* fails, and every such failure is of one single decryption-error type.
C13_AsStated ==
    WrongOrTampered =>
        /\ ~run_locals.password[1].ok
        /\ run_locals.password[1].err = "InvalidToken"

\* C13 witness: the stored salt text lost its last character and decrypt
\* failed in base64 decoding, not as a decryption error.
C13_Witness ==
    /\ pc = "aborted"
    /\ tamper = "salt_truncated"
    /\ run_locals.master = setup_locals.master1
    /\ run_locals.password[1] = Raise("binascii.Error")

\* Messages of the SystemExit cmd_setup raises for a missing or mismatched
\* input (lines 121, 313, 317, 322, 324).
SetupErrors ==
    {"Region must be one of: us, ous, jp", "Username is required.",
     "Dexcom password is required.", "Master passphrase is required.",
     "Master passphrases did not match. Aborting."}
SetupAborted == pc = "aborted" /\ printed.text \in SetupErrors

\* C14 as stated: when setup aborts on an invalid region, an empty username,
\* an empty provider password, an empty master passphrase or two passphrase
\* entries that differ, it has written nothing: the credential file is neither
\* created nor modified and nothing else on the filesystem has changed.
C14_AsStated == SetupAborted => fs = fs_before

\* C14 witness: setup aborted on an invalid region after the config
\* directory, absent when the command started, had been created; the
\* credential file is as it was.
C14_Witness ==
    /\ SetupAborted
    /\ printed.text = "Region must be one of: us, ous, jp"
    /\ ~fs_before.cfg_dir
    /\ fs.cfg_dir
    /\ fs.file = fs_before.file

\* Values that must stay in memory: the provider password, the master
\* passphrase and the key derived from it.
SecretSources == {"dex_pw", "master", "key"}

\* The file on disk is the one this setup wrote.
Saved ==
    /\ setup_locals.enc_blob # None
    /\ fs.file # None
    /\ fs.file # fs_before.file
    /\ tamper = "none"

TextFields(doc) ==
    {JsonLoads(doc.region), JsonLoads(doc.username),
     JsonLoads(doc.encrypted_password.salt_b64)}

\* C15: no message printed by setup or run, on success or on an error path,
\* is built from the provider password, the master passphrase or the derived
\* key; the credential file setup writes holds the region, the username, the
\* text of a random salt and the token, nothing else, and neither secret
\* occurs in its text fields: the provider password is in the file only as
\* the data sealed in the token.  A run leaves the file as it found it.
C15_SecretsStayInMemory ==
    /\ printed.src \cap SecretSources = {}
    /\ Saved =>
        LET doc == fs.file[1]
            e == doc.encrypted_password
            salt == B64Decode(JsonLoads(e.salt_b64))
        IN  /\ DOMAIN doc = {"version", "region", "username", "encrypted_password"}
            /\ DOMAIN e = {"salt_b64", "pw_token"}
            /\ JsonLoads(doc.region) = setup_locals.region
            /\ JsonLoads(doc.username) = setup_locals.username
            /\ salt.ok /\ salt.v \in Salts
            /\ e.pw_token.token =
                   FernetEncrypt(derive_fernet_key(setup_locals.master1, salt.v),
                                 Utf8Encode(setup_locals.dex_pw))
            /\ \A t \in TextFields(doc) :
                   /\ ~Contains(t, setup_locals.dex_pw)
                   /\ ~Contains(t, setup_locals.master1)
    /\ pc \in SetupSteps \cup DiscoveryPcs \cup {"poll", "idle"}
         => fs.file = fs_before.file

\* C15 witness: setup stored a password and reported the path of the file.
C15_Witness ==
    /\ pc = "exit"
    /\ Saved
    /\ setup_locals.dex_pw = W_pe
    /\ fs_before.file = Some(OldDocument)
    /\ printed = Message("Saved encrypted credentials to:", {"cred_path"})

\* The OSC_IP the metadata declares: its text without surrounding blanks, the
\* empty text when the entry is absent or null.
DeclaredOscIp(b) ==
    IF "OSC_IP" \in DOMAIN b.host_info /\ b.host_info.OSC_IP # JsonNull
    THEN Strip(b.host_info.OSC_IP) ELSE <<>>
ChosenAsStated(b) ==
    LET first == IF DeclaredOscIp(b) # <<>> THEN DeclaredOscIp(b) ELSE b.service_ip
    IN  IF IsLoopback(first) /\ ~IsLoopback(b.service_ip) THEN b.service_ip ELSE first

\* C16 as stated: every candidate's chosen IP is the declared OSC_IP when that
\* is non-empty and otherwise the resolved service IP, a loopback choice being
\* replaced by a non-loopback service IP; so the chosen IP, and the IP detect
\* and resolve return, is loopback only if the service IP is loopback.
C16_AsStated ==
    /\ \A i \in 1..Len(candidates) :
        /\ candidates[i].target_ip = ChosenAsStated(built[i])
        /\ IsLoopback(candidates[i].target_ip) => IsLoopback(built[i].service_ip)
    /\ (pc \in {"detected", "udp_client"} /\ candidates # <<>>) =>
        LET ip == IF pc = "detected" THEN detected[1] ELSE endpoint[1]
        IN  \E i \in 1..Len(candidates) :
                /\ ip = ChosenAsStated(built[i])
                /\ IsLoopback(ip) => IsLoopback(built[i].service_ip)

\* C16 witness: the only metadata found declared OSC_IP null, and resolve
\* returned the text "None" as the address, not the resolved service IP.
C16_Witness ==
    /\ pc = "udp_client"
    /\ Len(candidates) = 1
    /\ built[1].host_info = D_null
    /\ built[1].service_ip = S_svc
    /\ endpoint[1] = S_None

\* The OSC_PORT entry is absent, null, or nothing int() turns into a port.
PortUnusable(host_info) ==
    \/ "OSC_PORT" \notin DOMAIN host_info
    \/ host_info.OSC_PORT.t \in {"None", "inf"}
    \/ host_info.OSC_PORT.t = "str"
         /\ \E k \in 1..Len(host_info.OSC_PORT.v) :
                host_info.OSC_PORT.v[k] < 48 \/ host_info.OSC_PORT.v[k] > 57

\* C17 as stated: for a resolved instance the ?HOST_INFO url is fetched first
\* and the /?HOST_INFO url only if the first fetch failed; when both fail
\* (network error, unparsable body, a JSON value that is no object) the
\* candidate is built with an empty host name, port 9000 and the service IP;
\* an absent or unparsable OSC_PORT gives port 9000; and none of this raises:
\* the loop goes on with the remaining instances.
C17_AsStated ==
    /\ probes # <<>> =>
        LET b == built[Len(built)]
            c == candidates[Len(candidates)]
        IN  /\ pc = "iterate" /\ zc_open
            /\ Len(probes) <= 2
            /\ Len(probes) = 1 <=> probes[1] = "dict"
            /\ (Len(probes) = 2 /\ probes[2] # "dict") =>
                  /\ b.host_info = <<>>
                  /\ c.target_ip = b.service_ip
                  /\ c.osc_port = 9000
                  /\ c.score = (IF HasVrchat(b.name) THEN 100 ELSE 0)
                               + (IF IsLoopback(b.service_ip) THEN 0 ELSE 40)
    /\ \A i \in 1..Len(candidates) :
           PortUnusable(built[i].host_info) => candidates[i].osc_port = 9000
    /\ ~(pc = "aborted" /\ printed.text = "int(osc_port)")

\* C17 witness: the metadata of a resolved instance held an OSC_PORT that
\* int() cannot convert, the exception left the discovery call and the
\* remaining instances were not processed.
C17_Witness ==
    /\ pc = "aborted"
    /\ printed = Traceback("int(osc_port)", {"host_info"})
    /\ net.probe
    /\ ~zc_open
    /\ endpoint = None

\* The trend the provider-level query yielded, if it yielded one.
Yielded(dex) == dex.kind = "returns" /\ dex.value \in {PyEnum("Flat"), PyStr("SingleUp")}

\* The first of trend, trend_arrow, trend_description the reading has.
KnownAttr(attrs) ==
    IF "trend" \in DOMAIN attrs THEN Some(attrs.trend)
    ELSE IF "trend_arrow" \in DOMAIN attrs THEN Some(attrs.trend_arrow)
    ELSE IF "trend_description" \in DOMAIN attrs THEN Some(attrs.trend_description)
    ELSE None

\* reading_trend returned the fallback: the first known attribute of the
\* reading, none when the reading has none of them.
FellBack(call) ==
    /\ call.result.ok
    /\ call.result.v = (IF KnownAttr(call.attrs) = None THEN None
                        ELSE Some(TrendText(KnownAttr(call.attrs)[1])))

\* C18: reading_trend returns the trend of the provider-level query when the
\* query yields one; when the client has no such query, or the query raises
\* any error, reading_trend does not raise and returns the first present of
\* the reading's known trend attributes, none when it has none of them.
C18_AsStated ==
    trend_call.called =>
        /\ Yielded(trend_call.dex) =>
                trend_call.result = Ok(Some(TrendText(trend_call.dex.value)))
        /\ trend_call.dex.kind \in {"absent", "raises"} => FellBack(trend_call)

\* The trend query raised an error other than AttributeError while the
\* reading had a trend attribute: reading_trend raised, the cycle printed
\* "Error:" and sent nothing.
C18_Witness ==
    /\ trend_call.called
    /\ trend_call.dex.kind = "raises"
    /\ "trend" \in DOMAIN trend_call.attrs
    /\ ~trend_call.result.ok
    /\ cycle.outcome = "trend_error"
    /\ printed = CycleMessage("trend_error")

\* C19: whatever the order and multiplicity of the add and update
\* notifications, the snapshot taken at the end of the browse window holds
\* exactly the distinct instance names notified before it, each once.
C19_SnapshotExact ==
    [][pc = "browse" /\ pc' = "iterate" =>
        /\ {names'[i] : i \in DOMAIN names'} = {seen[i] : i \in DOMAIN seen}
        /\ \A i, j \in DOMAIN names' : names'[i] = names'[j] => i = j]_vars

\* Two instances were notified before the snapshot in an order that is not
\* the snapshot's: the snapshot holds both, each once.
C19_Witness ==
    /\ pc = "iterate"
    /\ Len(names) = 2
    /\ Len(seen) = 2
    /\ seen # names
    /\ {names[i] : i \in DOMAIN names} = {seen[i] : i \in DOMAIN seen}

\* The discovery call is between Zeroconf() and its return or raise.
InDiscoveryCall == pc \in {"start_browser", "browse", "iterate"}

\* C20: a discovery call that opened a browsing session has closed it when
\* the call has returned or raised, whatever step after the opening failed
\* (starting the browser, resolving, probing, scoring): outside the call no
\* session is open.
C20_AsStated == ~InDiscoveryCall => ~zc_open

\* ServiceBrowser(...) raised on line 239, before the try block whose finally
\* clause closes the session: the call has raised and the session is open.
C20_Witness ==
    /\ pc = "aborted"
    /\ zc_open
    /\ net.session
    /\ printed = Traceback("ServiceBrowser", {})

====
